---- MODULE Spec2Model ----
(***************************************************************************)
(* A model of the token bucket of bucket.go: New, the token counter, the   *)
(* waiting queue, the refill goroutine (adjustDaemon) and the callers of   *)
(* Availible, TryTake, Take, TakeMaxDuration, Wait, WaitMaxDuration and    *)
(* Destory.                                                                *)
(*                                                                         *)
(* A call is one invocation of a public method; a waiting job is named by  *)
(* the call that owns it.                                                  *)
(*                                                                         *)
(* Spec starts from a bucket built by New and takes a critical section of  *)
(* a lock as one step.  StepSpec starts before New and takes the locking   *)
(* and unlocking of the two mutexes as steps of their own.                 *)
(***************************************************************************)
EXTENDS Integers, Sequences, FiniteSets, TLC

\* New(interval, Cap): the capability the bucket is built with.
Cap == 2
\* How many invocations of the public methods one behaviour holds.
MaxCalls == 3
Calls == 1..MaxCalls
\* How many of them one behaviour of StepSpec holds.
MaxStepCalls == 2
StepCalls == 1..(IF MaxStepCalls < MaxCalls THEN MaxStepCalls ELSE MaxCalls)
Counts == (0 - 1)..(Cap + 1)
\* The max duration a caller passes: zero, or any positive duration.
Durations == {"zero", "positive"}
\* The largest fill interval passed to New, in ticks of the clock.
MaxInterval == 1
Intervals == (0 - MaxInterval)..MaxInterval
\* The capabilities passed to New.
Caps == (0 - 1)..Cap
Nil == 0

VARIABLES
    interval,       \* the interval New is called with, tb.interval afterwards
    cap,            \* the capability New is called with, tb.cap afterwards
    bucket,         \* "none" before New, then "created", or "panic" when New panicked
    avail,          \* tb.avail
    tokenMutex,     \* tb.tokenMutex: "free", or its holder: "daemon", or Caller(c)
    waitingQuqueMutex, \* tb.waitingQuqueMutex: "free", or its holder
    waitingQuque,   \* tb.waitingQuque: the owners of the queued jobs, front first
    waitingJobNow,  \* adjustDaemon's local waitingJobNow (Nil or the job's owner)
    dpc,            \* where adjustDaemon is: "idle", "send", "recv", "panicked"
    tickPending,    \* a tick sits in ticker.C (a channel of capacity one)
    stopped,        \* ticker.Stop() was called
    op,             \* per call: the public method invoked ("none" before the call)
    need,           \* per call: w.need
    use,            \* per call: w.use
    pc,             \* per call: "idle", "enq", "wait", "got", "ack", "done", "returned"
    abandoned,      \* per call: w.abandoned
    unseen,         \* per call: w.abandoned was written and adjustDaemon has not
                    \* been through an iteration since
    closed,         \* per call: w.ch was closed
    result,         \* per call: "none", "true", "false", "panic"
    value,          \* per call: the number Availible returned
    timer,          \* per call: time.After(max) is "off", "running" or "expired"
    taken,          \* history: what the call has subtracted from avail
    signals,        \* history: how often adjustDaemon's send on w.ch completed
    arrivals,       \* history: the owners of the jobs queued and neither satisfied
                    \* nor abandoned yet, in the order they were queued
    enough,         \* history: a tick handled before the call's deadline found
                    \* avail >= need with the call's job the tracked one
    availBefore     \* history: avail when the tick being handled arrived
                    \* (NoTick while adjustDaemon waits for a tick)

vars == <<interval, cap, bucket, avail, tokenMutex, waitingQuqueMutex,
          waitingQuque, waitingJobNow, dpc, tickPending, stopped,
          op, need, use, pc, abandoned, unseen, closed, result, value, timer,
          taken, signals, arrivals, enough, availBefore>>

\* What New fixes and what only the steps of StepSpec change.
bucketVars == <<interval, cap, bucket, waitingQuqueMutex>>

daemonVars == <<tokenMutex, waitingQuque, waitingJobNow, dpc, tickPending, stopped>>
histVars == <<signals, arrivals, enough>>

Timed == {"TakeMaxDuration", "WaitMaxDuration"}

----------------------------------------------------------------------------
\* The pure parts of the code.

\* checkCount: the count the method panics on.
checkCountUpperOnly(count) == count > cap
checkCount(count) == count < 0 \/ count > cap

\* tryTake's test under the token lock.
tryTakeOkStrict(n, a) == n < a
tryTakeOk(n, a) == n <= a

\* tryTake's effect on avail.
tryTakeAvailEager(n, u, a) == a - u
tryTakeAvail(n, u, a) == IF tryTakeOk(n, a) THEN a - u ELSE a

\* adjustDaemon's refill.
RefillUnbounded(a) == a + 1
Refill(a) == IF a < cap THEN a + 1 ELSE a

\* getFrontWaitingJob: the front element, Nil for an empty list.
getBackWaitingJob(q) == IF q = <<>> THEN Nil ELSE q[Len(q)]
getFrontWaitingJob(q) == IF q = <<>> THEN Nil ELSE Head(q)

\* removeWaitingJob: the list without element e.
removeWaitingJob(q, e) == SelectSeq(q, LAMBDA x : x # e)

\* addWaitingJob: PushBack.
addWaitingJob(q, w) == Append(q, w)

\* adjustDaemon's test for taking a new job from the queue.
wantsNewJobAlways(jobNow, ab) == TRUE
wantsNewJob(jobNow, ab) == jobNow = Nil \/ ab

\* adjustDaemon's test for handing the tokens to the tracked job.
jobReadyIgnoringNeed(a, n, ab) == ~ab
jobReady(a, n, ab) == a >= n /\ ~ab

\* What a read of w.abandoned by adjustDaemon can return: the owner writes the
\* field without a lock, so a read in the iteration that races with the write
\* may still return false; the iterations after it see the write.
ReadAbandoned(w) ==
    IF abandoned[w] THEN (IF unseen[w] THEN {TRUE, FALSE} ELSE {TRUE}) ELSE {FALSE}

----------------------------------------------------------------------------
\* The value of availBefore between two ticks.
NoTick == 0 - 1

\* Capability.
Capability == cap

\* The bucket New(MaxInterval, Cap) returns.
Init ==
    /\ interval = MaxInterval
    /\ cap = Cap
    /\ bucket = "created"
    /\ avail = cap
    /\ tokenMutex = "free"
    /\ waitingQuqueMutex = "free"
    /\ waitingQuque = <<>>
    /\ waitingJobNow = Nil
    /\ dpc = "idle"
    /\ tickPending = FALSE
    /\ stopped = FALSE
    /\ op = [c \in Calls |-> "none"]
    /\ need = [c \in Calls |-> 0]
    /\ use = [c \in Calls |-> 0]
    /\ pc = [c \in Calls |-> "idle"]
    /\ abandoned = [c \in Calls |-> FALSE]
    /\ unseen = [c \in Calls |-> FALSE]
    /\ closed = [c \in Calls |-> FALSE]
    /\ result = [c \in Calls |-> "none"]
    /\ value = [c \in Calls |-> 0]
    /\ timer = [c \in Calls |-> "off"]
    /\ taken = [c \in Calls |-> 0]
    /\ signals = [c \in Calls |-> 0]
    /\ arrivals = <<>>
    /\ enough = [c \in Calls |-> FALSE]
    /\ availBefore = NoTick

\* The process is alive (a panic in adjustDaemon's goroutine ends it) and no
\* method that has finished is still to hand its result to its caller: that
\* step, Return, reads and writes nothing another step reads, so it is taken
\* before any other.
Running == bucket = "created" /\ dpc # "panicked" /\ \A c \in Calls : pc[c] # "done"

\* The next invocation: calls are numbered in the order they are made.
NextCall(c) == pc[c] = "idle" /\ \A d \in Calls : d < c => pc[d] # "idle"

\* The body of a public method with need n and use u, up to the end of its
\* tryTake: checkCount(use) panics before the lock is taken; otherwise the
\* test and the subtraction happen under the token lock.  blocking: the method
\* goes on to queue a job when tryTake fails; max is the duration its select
\* will wait.
\* result "true" also stands for the return of Take and Wait, which return
\* nothing.
Invoke(c, o, n, u, max, blocking) ==
    /\ op' = [op EXCEPT ![c] = o]
    /\ need' = [need EXCEPT ![c] = n]
    /\ use' = [use EXCEPT ![c] = u]
    /\ IF checkCount(u)
         THEN /\ pc' = [pc EXCEPT ![c] = "done"]
              /\ result' = [result EXCEPT ![c] = "panic"]
              /\ UNCHANGED <<avail, taken, timer>>
         ELSE /\ tokenMutex = "free"
              /\ avail' = tryTakeAvail(n, u, avail)
              /\ taken' = [taken EXCEPT ![c] = avail - avail']
              /\ IF tryTakeOk(n, avail)
                   THEN /\ pc' = [pc EXCEPT ![c] = "done"]
                        /\ result' = [result EXCEPT ![c] = "true"]
                        /\ UNCHANGED timer
                   ELSE IF blocking
                     THEN /\ pc' = [pc EXCEPT ![c] = "enq"]
                          /\ UNCHANGED result
                          /\ timer' = [timer EXCEPT ![c] =
                                         CASE max = "none" -> "off"
                                           [] max = "zero" -> "expired"
                                           [] max = "positive" -> "running"]
                     ELSE /\ pc' = [pc EXCEPT ![c] = "done"]
                          /\ result' = [result EXCEPT ![c] = "false"]
                          /\ UNCHANGED timer
    /\ UNCHANGED <<bucketVars, unseen, value, availBefore>>
    /\ UNCHANGED <<daemonVars, abandoned, closed, histVars>>

TryTake(c, count) ==
    /\ Running
    /\ NextCall(c)
    /\ Invoke(c, "TryTake", count, count, "none", FALSE)

Take(c, count) ==
    /\ Running
    /\ NextCall(c)
    /\ Invoke(c, "Take", count, count, "none", TRUE)

TakeMaxDuration(c, count, max) ==
    /\ Running
    /\ NextCall(c)
    /\ Invoke(c, "TakeMaxDuration", count, count, max, TRUE)

\* Wait passing count for use as well.
WaitTaking(c, count) ==
    /\ Running
    /\ NextCall(c)
    /\ Invoke(c, "Wait", count, count, "none", TRUE)

Wait(c, count) ==
    /\ Running
    /\ NextCall(c)
    /\ Invoke(c, "Wait", count, 0, "none", TRUE)

WaitMaxDuration(c, count, max) ==
    /\ Running
    /\ NextCall(c)
    /\ Invoke(c, "WaitMaxDuration", count, 0, max, TRUE)

\* Availible reading tb.avail without the token lock.
AvailibleUnlocked(c) ==
    /\ Running
    /\ NextCall(c)
    /\ op' = [op EXCEPT ![c] = "Availible"]
    /\ value' = [value EXCEPT ![c] = avail]
    /\ result' = [result EXCEPT ![c] = "true"]
    /\ pc' = [pc EXCEPT ![c] = "done"]
    /\ UNCHANGED <<bucketVars, avail, daemonVars, need, use, abandoned, unseen, closed, timer,
                   taken, histVars, availBefore>>

\* Availible: tb.avail, read under the token lock.
Availible(c) ==
    /\ Running
    /\ NextCall(c)
    /\ tokenMutex = "free"
    /\ op' = [op EXCEPT ![c] = "Availible"]
    /\ value' = [value EXCEPT ![c] = avail]
    /\ result' = [result EXCEPT ![c] = "true"]
    /\ pc' = [pc EXCEPT ![c] = "done"]
    /\ UNCHANGED <<bucketVars, avail, daemonVars, need, use, abandoned, unseen, closed, timer,
                   taken, histVars, availBefore>>

\* waitAndTake / waitAndTakeMaxDuration after a failed tryTake: the job is
\* pushed to the back of the queue and the caller blocks on w.ch (in select,
\* with time.After(max) started, for the timed methods).
Enqueue(c) ==
    /\ Running
    /\ pc[c] = "enq"
    /\ waitingQuque' = addWaitingJob(waitingQuque, c)
    /\ arrivals' = Append(arrivals, c)
    /\ pc' = [pc EXCEPT ![c] = "wait"]
    /\ UNCHANGED <<bucketVars, unseen, value, availBefore>>
    /\ UNCHANGED <<avail, tokenMutex, waitingJobNow, dpc, tickPending, stopped,
                   op, need, use, abandoned, closed, result, timer,
                   taken, signals, enough>>

\* The max duration of a caller blocked in select elapses.  Handling a tick
\* takes no time on the scale of max: the deadline does not fall between a
\* tick and the end of its handling.  (The caller may still run its timeout
\* branch there: a timer that expired before the tick wakes it at any later
\* moment.)
Expire(c) ==
    /\ Running
    /\ pc[c] = "wait"
    /\ timer[c] = "running"
    /\ dpc = "idle"
    /\ ~tickPending
    /\ timer' = [timer EXCEPT ![c] = "expired"]
    /\ UNCHANGED <<bucketVars, unseen, value, availBefore>>
    /\ UNCHANGED <<avail, daemonVars, op, need, use, pc, abandoned, closed, result,
                   taken, histVars>>

\* case <-time.After(max): the caller marks the job abandoned, returns false
\* and the deferred close(w.ch) runs.
Timeout(c) ==
    /\ Running
    /\ pc[c] = "wait"
    /\ timer[c] = "expired"
    /\ abandoned' = [abandoned EXCEPT ![c] = TRUE]
    /\ unseen' = [unseen EXCEPT ![c] = TRUE]
    /\ closed' = [closed EXCEPT ![c] = TRUE]
    /\ result' = [result EXCEPT ![c] = "false"]
    /\ pc' = [pc EXCEPT ![c] = "done"]
    /\ arrivals' = removeWaitingJob(arrivals, c)
    /\ UNCHANGED <<bucketVars, value, availBefore>>
    /\ UNCHANGED <<avail, daemonVars, op, need, use, timer, taken, signals, enough>>

\* A ticker that Stop does not stop.
TickAfterStop ==
    /\ Running
    /\ ~tickPending
    /\ tickPending' = TRUE
    /\ UNCHANGED <<bucketVars, unseen, value, availBefore>>
    /\ UNCHANGED <<avail, tokenMutex, waitingQuque, waitingJobNow, dpc, stopped,
                   op, need, use, pc, abandoned, closed, result, timer,
                   taken, histVars>>

\* The ticker fires: a tick goes into ticker.C unless one is still there.
Tick ==
    /\ Running
    /\ ~stopped
    /\ ~tickPending
    /\ tickPending' = TRUE
    /\ UNCHANGED <<bucketVars, unseen, value, availBefore>>
    /\ UNCHANGED <<avail, tokenMutex, waitingQuque, waitingJobNow, dpc, stopped,
                   op, need, use, pc, abandoned, closed, result, timer,
                   taken, histVars>>

\* Destory: ticker.Stop().
Destory ==
    /\ Running
    /\ ~stopped
    /\ stopped' = TRUE
    /\ UNCHANGED <<bucketVars, unseen, value, availBefore>>
    /\ UNCHANGED <<avail, tokenMutex, waitingQuque, waitingJobNow, dpc, tickPending,
                   op, need, use, pc, abandoned, closed, result, timer,
                   taken, histVars>>

\* The job fields of call c after the job has become garbage: a job neither
\* its owner nor adjustDaemon can reach any more is forgotten.
Forget(f, c, v) == [f EXCEPT ![c] = v]

\* One iteration of adjustDaemon's loop up to its send on the job's channel:
\* the lock, the refill, the look at the front of the queue, the pop into
\* waitingJobNow and the test avail >= need && !abandoned; the unlock when the
\* test fails.
AdjustDaemon ==
    /\ Running
    /\ dpc = "idle"
    /\ tickPending
    /\ tokenMutex = "free"
    /\ tickPending' = FALSE
    /\ LET a1 == Refill(avail)
           element == getFrontWaitingJob(waitingQuque)
       IN /\ avail' = a1
          /\ \E ab1 \in (IF waitingJobNow = Nil THEN {FALSE} ELSE ReadAbandoned(waitingJobNow)) :
               LET pop == element # Nil /\ wantsNewJob(waitingJobNow, ab1)
                   jobNow == IF pop THEN element ELSE waitingJobNow
                   garbage == pop /\ waitingJobNow # Nil /\ pc[waitingJobNow] = "returned"
               IN /\ waitingJobNow' = jobNow
                  /\ waitingQuque' = IF pop THEN removeWaitingJob(waitingQuque, element)
                                            ELSE waitingQuque
                  /\ enough' = [c \in Calls |->
                                  enough[c] \/ (/\ c = jobNow
                                                /\ pc[c] = "wait"
                                                /\ timer[c] = "running"
                                                /\ a1 >= need[c])]
                  /\ \E ab2 \in (IF jobNow = Nil THEN {FALSE} ELSE ReadAbandoned(jobNow)) :
                       IF element # Nil /\ jobReady(a1, need[jobNow], ab2)
                         THEN dpc' = "send" /\ tokenMutex' = "daemon" /\ availBefore' = avail
                         ELSE dpc' = "idle" /\ tokenMutex' = "free" /\ availBefore' = NoTick
                  /\ IF garbage
                       THEN /\ need' = Forget(need, waitingJobNow, 0)
                            /\ use' = Forget(use, waitingJobNow, 0)
                            /\ abandoned' = Forget(abandoned, waitingJobNow, FALSE)
                            /\ closed' = Forget(closed, waitingJobNow, FALSE)
                       ELSE UNCHANGED <<need, use, abandoned, closed>>
    /\ unseen' = [c \in Calls |-> FALSE]
    /\ UNCHANGED <<bucketVars, value>>
    /\ UNCHANGED <<stopped, op, pc, result, timer, taken, signals, arrivals>>

\* Handoff on a buffered channel: the send completes without the owner.
HandoffBuffered(c) ==
    /\ Running
    /\ dpc = "send"
    /\ waitingJobNow = c
    /\ pc[c] = "wait"
    /\ ~closed[c]
    /\ dpc' = "recv"
    /\ signals' = [signals EXCEPT ![c] = @ + 1]
    /\ UNCHANGED <<bucketVars, unseen, value, availBefore>>
    /\ UNCHANGED <<avail, tokenMutex, waitingQuque, waitingJobNow, tickPending, stopped,
                   op, need, use, pc, abandoned, closed, result, timer,
                   taken, arrivals, enough>>

\* waitingJobNow.ch <- struct{}{} meets the owner's <-w.ch.
Handoff(c) ==
    /\ Running
    /\ dpc = "send"
    /\ waitingJobNow = c
    /\ pc[c] = "wait"
    /\ ~closed[c]
    /\ dpc' = "recv"
    /\ pc' = [pc EXCEPT ![c] = "got"]
    /\ signals' = [signals EXCEPT ![c] = @ + 1]
    /\ arrivals' = removeWaitingJob(arrivals, c)
    /\ UNCHANGED <<bucketVars, unseen, value, availBefore>>
    /\ UNCHANGED <<avail, tokenMutex, waitingQuque, waitingJobNow, tickPending, stopped,
                   op, need, use, abandoned, closed, result, timer,
                   taken, enough>>

\* waitingJobNow.ch <- struct{}{} on a channel its owner has closed: the send
\* panics and the process ends, the token lock still held.
SendOnClosed ==
    /\ Running
    /\ dpc = "send"
    /\ closed[waitingJobNow]
    /\ dpc' = "panicked"
    /\ UNCHANGED <<bucketVars, unseen, value, availBefore>>
    /\ UNCHANGED <<avail, tokenMutex, waitingQuque, waitingJobNow, tickPending, stopped,
                   op, need, use, pc, abandoned, closed, result, timer,
                   taken, histVars>>

\* The woken owner subtracting need instead of use.
DeductNeed(c) ==
    /\ Running
    /\ pc[c] = "got"
    /\ avail' = avail - need[c]
    /\ taken' = [taken EXCEPT ![c] = @ + need[c]]
    /\ pc' = [pc EXCEPT ![c] = "ack"]
    /\ UNCHANGED <<bucketVars, unseen, value, availBefore>>
    /\ UNCHANGED <<daemonVars, op, need, use, abandoned, closed, result, timer,
                   histVars>>

\* The woken owner's tb.avail -= use.
Deduct(c) ==
    /\ Running
    /\ pc[c] = "got"
    /\ avail' = avail - use[c]
    /\ taken' = [taken EXCEPT ![c] = @ + use[c]]
    /\ pc' = [pc EXCEPT ![c] = "ack"]
    /\ UNCHANGED <<bucketVars, unseen, value, availBefore>>
    /\ UNCHANGED <<daemonVars, op, need, use, abandoned, closed, result, timer,
                   histVars>>

\* The owner's w.ch <- struct{}{} meets adjustDaemon's <-waitingJobNow.ch: the
\* owner closes the channel and returns, adjustDaemon clears waitingJobNow and
\* unlocks.
Ack(c) ==
    /\ Running
    /\ pc[c] = "ack"
    /\ dpc = "recv"
    /\ waitingJobNow = c
    /\ pc' = [pc EXCEPT ![c] = "done"]
    /\ result' = [result EXCEPT ![c] = "true"]
    /\ closed' = [closed EXCEPT ![c] = TRUE]
    /\ waitingJobNow' = Nil
    /\ dpc' = "idle"
    /\ tokenMutex' = "free"
    /\ availBefore' = NoTick
    /\ UNCHANGED <<bucketVars, unseen, value>>
    /\ UNCHANGED <<avail, waitingQuque, tickPending, stopped,
                   op, need, use, abandoned, timer, taken, histVars>>

\* adjustDaemon can still reach the job of call c.
Reachable(c) == c = waitingJobNow \/ \E i \in 1..Len(waitingQuque) : waitingQuque[i] = c

\* The method has returned and its caller has the result: the call's record
\* is dropped, and so is its job unless adjustDaemon can still reach it.
Return(c) ==
    /\ dpc # "panicked"
    /\ pc[c] = "done"
    /\ pc' = [pc EXCEPT ![c] = "returned"]
    /\ op' = [op EXCEPT ![c] = "none"]
    /\ result' = [result EXCEPT ![c] = "none"]
    /\ value' = [value EXCEPT ![c] = 0]
    /\ timer' = [timer EXCEPT ![c] = "off"]
    /\ taken' = [taken EXCEPT ![c] = 0]
    /\ signals' = [signals EXCEPT ![c] = 0]
    /\ enough' = [enough EXCEPT ![c] = FALSE]
    /\ IF Reachable(c)
         THEN UNCHANGED <<need, use, abandoned, unseen, closed>>
         ELSE /\ need' = Forget(need, c, 0)
              /\ use' = Forget(use, c, 0)
              /\ abandoned' = Forget(abandoned, c, FALSE)
              /\ unseen' = Forget(unseen, c, FALSE)
              /\ closed' = Forget(closed, c, FALSE)
    /\ UNCHANGED <<bucketVars, availBefore>>
    /\ UNCHANGED <<avail, daemonVars, arrivals>>

Next ==
    \/ \E c \in Calls, count \in Counts : TryTake(c, count)
    \/ \E c \in Calls, count \in Counts : Take(c, count)
    \/ \E c \in Calls, count \in Counts, max \in Durations : TakeMaxDuration(c, count, max)
    \/ \E c \in Calls, count \in Counts : Wait(c, count)
    \/ \E c \in Calls, count \in Counts, max \in Durations : WaitMaxDuration(c, count, max)
    \/ \E c \in Calls : Availible(c)
    \/ \E c \in Calls : Enqueue(c)
    \/ \E c \in Calls : Expire(c)
    \/ \E c \in Calls : Timeout(c)
    \/ Tick
    \/ Destory
    \/ AdjustDaemon
    \/ \E c \in Calls : Handoff(c)
    \/ SendOnClosed
    \/ \E c \in Calls : Deduct(c)
    \/ \E c \in Calls : Ack(c)
    \/ \E c \in Calls : Return(c)

Spec == Init /\ [][Next]_vars

\* The scheduling the runtime guarantees: the ticker keeps firing until it is
\* stopped, a goroutine that can take its next step takes it, a ready
\* channel operation completes and an expired timer wakes its select.  No
\* caller is obliged to invoke a method, and no max duration has to elapse.
LiveSpec ==
    /\ Spec
    /\ WF_vars(Tick)
    /\ WF_vars(AdjustDaemon)
    /\ WF_vars(SendOnClosed)
    /\ \A c \in Calls :
         /\ WF_vars(Enqueue(c))
         /\ WF_vars(Timeout(c))
         /\ WF_vars(Handoff(c))
         /\ WF_vars(Deduct(c))
         /\ WF_vars(Ack(c))
         /\ WF_vars(Return(c))

----------------------------------------------------------------------------
\* The steps of StepSpec: New, and the methods and adjustDaemon with the
\* locking and unlocking of tb.tokenMutex and tb.waitingQuqueMutex as steps.
\* A call is at "lock" before tokenMutex.Lock(), at "locked" holding it, at
\* "add" before waitingQuqueMutex.Lock() in addWaitingJob, at "adding" holding
\* it.  adjustDaemon is at "lock", then holds the token lock at "front",
\* "fronting", "remove", "removing", "test", "send" and "recv", and the queue
\* lock at "fronting" and "removing".

callVars == <<op, need, use, pc, abandoned, unseen, closed, result, value, timer>>

\* The name under which call c holds a mutex.
Caller(c) == ToString(c)
histAll == <<taken, signals, arrivals, enough, availBefore>>

\* No bucket yet: New is about to be called with interval and cap.
StepInit ==
    /\ interval \in Intervals
    /\ cap \in Caps
    /\ bucket = "none"
    /\ avail = 0
    /\ tokenMutex = "free"
    /\ waitingQuqueMutex = "free"
    /\ waitingQuque = <<>>
    /\ waitingJobNow = Nil
    /\ dpc = "idle"
    /\ tickPending = FALSE
    /\ stopped = FALSE
    /\ op = [c \in Calls |-> "none"]
    /\ need = [c \in Calls |-> 0]
    /\ use = [c \in Calls |-> 0]
    /\ pc = [c \in Calls |-> "idle"]
    /\ abandoned = [c \in Calls |-> FALSE]
    /\ unseen = [c \in Calls |-> FALSE]
    /\ closed = [c \in Calls |-> FALSE]
    /\ result = [c \in Calls |-> "none"]
    /\ value = [c \in Calls |-> 0]
    /\ timer = [c \in Calls |-> "off"]
    /\ taken = [c \in Calls |-> 0]
    /\ signals = [c \in Calls |-> 0]
    /\ arrivals = <<>>
    /\ enough = [c \in Calls |-> FALSE]
    /\ availBefore = NoTick

\* New without its two tests.
NewUnchecked ==
    /\ bucket = "none"
    /\ IF interval <= 0
         THEN bucket' = "panic" /\ UNCHANGED <<avail, waitingQuque>>
         ELSE bucket' = "created" /\ avail' = cap /\ waitingQuque' = <<>>
    /\ UNCHANGED <<interval, cap, tokenMutex, waitingQuqueMutex, waitingJobNow, dpc,
                   tickPending, stopped, callVars, histAll>>

\* New: panics on a negative interval or cap; time.NewTicker panics on a
\* zero interval; otherwise the bucket is built full, with an empty queue and
\* both mutexes unlocked, and adjustDaemon starts waiting for the first tick.
New ==
    /\ bucket = "none"
    /\ IF interval < 0 \/ cap < 0 \/ interval <= 0
         THEN bucket' = "panic" /\ UNCHANGED <<avail, waitingQuque>>
         ELSE bucket' = "created" /\ avail' = cap /\ waitingQuque' = <<>>
    /\ UNCHANGED <<interval, cap, tokenMutex, waitingQuqueMutex, waitingJobNow, dpc,
                   tickPending, stopped, callVars, histAll>>

\* A public method is entered with need n and use u: checkCount(use) panics,
\* or the call goes on to tokenMutex.Lock().  timer keeps max for the select.
Call(c, o, n, u, max) ==
    /\ op' = [op EXCEPT ![c] = o]
    /\ need' = [need EXCEPT ![c] = n]
    /\ use' = [use EXCEPT ![c] = u]
    /\ IF checkCount(u)
         THEN /\ pc' = [pc EXCEPT ![c] = "done"]
              /\ result' = [result EXCEPT ![c] = "panic"]
              /\ UNCHANGED timer
         ELSE /\ pc' = [pc EXCEPT ![c] = "lock"]
              /\ timer' = [timer EXCEPT ![c] =
                             CASE max = "none" -> "off"
                               [] max = "zero" -> "expired"
                               [] max = "positive" -> "running"]
              /\ UNCHANGED result
    /\ UNCHANGED <<bucketVars, avail, daemonVars, abandoned, unseen, closed, value, histAll>>

TryTakeCall(c, count) ==
    /\ Running
    /\ NextCall(c)
    /\ Call(c, "TryTake", count, count, "none")

TakeCall(c, count) ==
    /\ Running
    /\ NextCall(c)
    /\ Call(c, "Take", count, count, "none")

TakeMaxDurationCall(c, count, max) ==
    /\ Running
    /\ NextCall(c)
    /\ Call(c, "TakeMaxDuration", count, count, max)

WaitCall(c, count) ==
    /\ Running
    /\ NextCall(c)
    /\ Call(c, "Wait", count, 0, "none")

WaitMaxDurationCall(c, count, max) ==
    /\ Running
    /\ NextCall(c)
    /\ Call(c, "WaitMaxDuration", count, 0, max)

\* Availible is entered: it goes on to tokenMutex.Lock().
AvailibleCall(c) ==
    /\ Running
    /\ NextCall(c)
    /\ op' = [op EXCEPT ![c] = "Availible"]
    /\ pc' = [pc EXCEPT ![c] = "lock"]
    /\ UNCHANGED <<bucketVars, avail, daemonVars, need, use, abandoned, unseen, closed,
                   result, value, timer, histAll>>

\* tb.tokenMutex.Lock() in tryTake or Availible.
tokenMutexLock(c) ==
    /\ Running
    /\ pc[c] = "lock"
    /\ tokenMutex = "free"
    /\ tokenMutex' = Caller(c)
    /\ pc' = [pc EXCEPT ![c] = "locked"]
    /\ UNCHANGED <<bucketVars, avail, waitingQuque, waitingJobNow, dpc, tickPending,
                   stopped, op, need, use, abandoned, unseen, closed, result, value,
                   timer, histAll>>

\* Availible under the lock: return tb.avail, the deferred Unlock.
AvailibleRead(c) ==
    /\ Running
    /\ pc[c] = "locked"
    /\ op[c] = "Availible"
    /\ value' = [value EXCEPT ![c] = avail]
    /\ result' = [result EXCEPT ![c] = "true"]
    /\ pc' = [pc EXCEPT ![c] = "done"]
    /\ tokenMutex' = "free"
    /\ UNCHANGED <<bucketVars, avail, waitingQuque, waitingJobNow, dpc, tickPending,
                   stopped, op, need, use, abandoned, unseen, closed, timer, histAll>>

\* tryTake that returns to waitAndTake without unlocking.
tryTakeKeepLock(c) ==
    /\ Running
    /\ pc[c] = "locked"
    /\ op[c] # "Availible"
    /\ avail' = tryTakeAvail(need[c], use[c], avail)
    /\ IF tryTakeOk(need[c], avail)
         THEN /\ pc' = [pc EXCEPT ![c] = "done"]
              /\ result' = [result EXCEPT ![c] = "true"]
              /\ timer' = [timer EXCEPT ![c] = "off"]
              /\ tokenMutex' = "free"
         ELSE IF op[c] = "TryTake"
           THEN /\ pc' = [pc EXCEPT ![c] = "done"]
                /\ result' = [result EXCEPT ![c] = "false"]
                /\ tokenMutex' = "free"
                /\ UNCHANGED timer
           ELSE /\ pc' = [pc EXCEPT ![c] = "add"]
                /\ UNCHANGED <<result, timer, tokenMutex>>
    /\ UNCHANGED <<bucketVars, waitingQuque, waitingJobNow, dpc, tickPending, stopped,
                   op, need, use, abandoned, unseen, closed, value, histAll>>

\* tryTake under the lock: the test, the subtraction, the deferred Unlock;
\* a blocking method whose tryTake failed goes on to addWaitingJob.
tryTake(c) ==
    /\ Running
    /\ pc[c] = "locked"
    /\ op[c] # "Availible"
    /\ avail' = tryTakeAvail(need[c], use[c], avail)
    /\ tokenMutex' = "free"
    /\ IF tryTakeOk(need[c], avail)
         THEN /\ pc' = [pc EXCEPT ![c] = "done"]
              /\ result' = [result EXCEPT ![c] = "true"]
              /\ timer' = [timer EXCEPT ![c] = "off"]
         ELSE IF op[c] = "TryTake"
           THEN /\ pc' = [pc EXCEPT ![c] = "done"]
                /\ result' = [result EXCEPT ![c] = "false"]
                /\ UNCHANGED timer
           ELSE /\ pc' = [pc EXCEPT ![c] = "add"]
                /\ UNCHANGED <<result, timer>>
    /\ UNCHANGED <<bucketVars, waitingQuque, waitingJobNow, dpc, tickPending, stopped,
                   op, need, use, abandoned, unseen, closed, value, histAll>>

\* addWaitingJob: tb.waitingQuqueMutex.Lock().
addWaitingJobLock(c) ==
    /\ Running
    /\ pc[c] = "add"
    /\ waitingQuqueMutex = "free"
    /\ waitingQuqueMutex' = Caller(c)
    /\ pc' = [pc EXCEPT ![c] = "adding"]
    /\ UNCHANGED <<interval, cap, bucket, avail, tokenMutex, waitingQuque, waitingJobNow,
                   dpc, tickPending, stopped, op, need, use, abandoned, unseen, closed,
                   result, value, timer, histAll>>

\* addWaitingJob: PushBack and Unlock; the caller then blocks on w.ch.
addWaitingJobPush(c) ==
    /\ Running
    /\ pc[c] = "adding"
    /\ waitingQuque' = addWaitingJob(waitingQuque, c)
    /\ waitingQuqueMutex' = "free"
    /\ pc' = [pc EXCEPT ![c] = "wait"]
    /\ UNCHANGED <<interval, cap, bucket, avail, tokenMutex, waitingJobNow,
                   dpc, tickPending, stopped, op, need, use, abandoned, unseen, closed,
                   result, value, timer, histAll>>

\* adjustDaemon receives the tick from ticker.C.
ReceiveTick ==
    /\ Running
    /\ dpc = "idle"
    /\ tickPending
    /\ tickPending' = FALSE
    /\ dpc' = "lock"
    /\ UNCHANGED <<bucketVars, avail, tokenMutex, waitingQuque, waitingJobNow, stopped,
                   callVars, histAll>>

\* adjustDaemon: tb.tokenMutex.Lock() and the refill.
DaemonLock ==
    /\ Running
    /\ dpc = "lock"
    /\ tokenMutex = "free"
    /\ tokenMutex' = "daemon"
    /\ avail' = Refill(avail)
    /\ dpc' = "front"
    /\ UNCHANGED <<bucketVars, waitingQuque, waitingJobNow, tickPending, stopped,
                   callVars, histAll>>

\* getFrontWaitingJob: tb.waitingQuqueMutex.Lock().
getFrontLock ==
    /\ Running
    /\ dpc = "front"
    /\ waitingQuqueMutex = "free"
    /\ waitingQuqueMutex' = "daemon"
    /\ dpc' = "fronting"
    /\ UNCHANGED <<interval, cap, bucket, avail, tokenMutex, waitingQuque, waitingJobNow,
                   tickPending, stopped, callVars, histAll>>

\* getFrontWaitingJob: Front and Unlock, then the tests of lines 181 and 182
\* on the element returned: no element ends the iteration (tokenMutex.Unlock).
getFront ==
    /\ Running
    /\ dpc = "fronting"
    /\ waitingQuqueMutex' = "free"
    /\ LET element == getFrontWaitingJob(waitingQuque)
       IN IF element = Nil
            THEN /\ dpc' = "idle"
                 /\ tokenMutex' = "free"
                 /\ unseen' = [c \in Calls |-> FALSE]
            ELSE /\ \E ab1 \in (IF waitingJobNow = Nil THEN {FALSE}
                                                       ELSE ReadAbandoned(waitingJobNow)) :
                      dpc' = IF wantsNewJob(waitingJobNow, ab1) THEN "remove" ELSE "test"
                 /\ UNCHANGED <<tokenMutex, unseen>>
    /\ UNCHANGED <<interval, cap, bucket, avail, waitingQuque, waitingJobNow,
                   tickPending, stopped, op, need, use, pc, abandoned, closed, result,
                   value, timer, histAll>>

\* removeWaitingJob: tb.waitingQuqueMutex.Lock().
removeLock ==
    /\ Running
    /\ dpc = "remove"
    /\ waitingQuqueMutex = "free"
    /\ waitingQuqueMutex' = "daemon"
    /\ dpc' = "removing"
    /\ UNCHANGED <<interval, cap, bucket, avail, tokenMutex, waitingQuque, waitingJobNow,
                   tickPending, stopped, callVars, histAll>>

\* waitingJobNow = element.Value and removeWaitingJob's Remove and Unlock: the
\* element is still the front, the callers push to the back.
removeFront ==
    /\ Running
    /\ dpc = "removing"
    /\ LET element == getFrontWaitingJob(waitingQuque)
           garbage == waitingJobNow # Nil /\ pc[waitingJobNow] = "returned"
       IN /\ waitingJobNow' = element
          /\ waitingQuque' = removeWaitingJob(waitingQuque, element)
          /\ IF garbage
               THEN /\ need' = Forget(need, waitingJobNow, 0)
                    /\ use' = Forget(use, waitingJobNow, 0)
                    /\ abandoned' = Forget(abandoned, waitingJobNow, FALSE)
                    /\ closed' = Forget(closed, waitingJobNow, FALSE)
               ELSE UNCHANGED <<need, use, abandoned, closed>>
    /\ waitingQuqueMutex' = "free"
    /\ dpc' = "test"
    /\ UNCHANGED <<interval, cap, bucket, avail, tokenMutex, tickPending, stopped,
                   op, pc, unseen, result, value, timer, histAll>>

\* The test of line 188: adjustDaemon goes on to its send, or ends the
\* iteration (tokenMutex.Unlock).
DaemonTest ==
    /\ Running
    /\ dpc = "test"
    /\ \E ab2 \in ReadAbandoned(waitingJobNow) :
         IF jobReady(avail, need[waitingJobNow], ab2)
           THEN dpc' = "send" /\ UNCHANGED tokenMutex
           ELSE dpc' = "idle" /\ tokenMutex' = "free"
    /\ unseen' = [c \in Calls |-> FALSE]
    /\ UNCHANGED <<bucketVars, avail, waitingQuque, waitingJobNow, tickPending, stopped,
                   op, need, use, pc, abandoned, closed, result, value, timer, histAll>>

StepNext ==
    \/ New
    \/ \E c \in StepCalls, count \in Counts : TryTakeCall(c, count)
    \/ \E c \in StepCalls, count \in Counts : TakeCall(c, count)
    \/ \E c \in StepCalls, count \in Counts, max \in Durations : TakeMaxDurationCall(c, count, max)
    \/ \E c \in StepCalls, count \in Counts : WaitCall(c, count)
    \/ \E c \in StepCalls, count \in Counts, max \in Durations : WaitMaxDurationCall(c, count, max)
    \/ \E c \in StepCalls : AvailibleCall(c)
    \/ \E c \in Calls : tokenMutexLock(c)
    \/ \E c \in Calls : AvailibleRead(c)
    \/ \E c \in Calls : tryTake(c)
    \/ \E c \in Calls : addWaitingJobLock(c)
    \/ \E c \in Calls : addWaitingJobPush(c)
    \/ \E c \in Calls : Expire(c)
    \/ \E c \in Calls : Timeout(c)
    \/ Tick
    \/ Destory
    \/ ReceiveTick
    \/ DaemonLock
    \/ getFrontLock
    \/ getFront
    \/ removeLock
    \/ removeFront
    \/ DaemonTest
    \/ \E c \in Calls : Handoff(c)
    \/ SendOnClosed
    \/ \E c \in Calls : Deduct(c)
    \/ \E c \in Calls : Ack(c)
    \/ \E c \in Calls : Return(c)

StepSpec == StepInit /\ [][StepNext]_vars

\* A thread is at a Lock() of one of the two mutexes.
AtLock == (\E c \in Calls : pc[c] \in {"lock", "add"}) \/ dpc \in {"lock", "front", "remove"}

\* The steps that lock and unlock the two mutexes, and the steps of a
\* hand-off, during which adjustDaemon keeps the token lock.
LockStep ==
    \/ \E c \in Calls : tokenMutexLock(c) \/ AvailibleRead(c) \/ tryTake(c)
    \/ \E c \in Calls : addWaitingJobLock(c) \/ addWaitingJobPush(c)
    \/ DaemonLock \/ getFrontLock \/ getFront \/ removeLock \/ removeFront \/ DaemonTest
HandoffStep ==
    \/ \E c \in Calls : Handoff(c) \/ Deduct(c) \/ Ack(c) \/ Return(c)
    \/ SendOnClosed

----------------------------------------------------------------------------
ValidCounts == 0..Cap
WaitOps == {"Wait", "WaitMaxDuration"}

\* C1: in every reachable state the token counter satisfies 0 <= avail <= cap.
C1_AvailInRange == 0 <= avail /\ avail <= Cap

\* A queued Take of the whole bucket has been served by the refill loop after
\* the ticks refilled it, and has emptied it again.
C1_Witness ==
    \E c \in Calls : pc[c] = "ack" /\ signals[c] = 1 /\ taken[c] = Cap /\ avail = 0 /\ Cap > 0

\* C2: a Take whose job is the refill loop's tracked candidate eventually
\* returns, as long as the bucket is not destroyed (the ticks keep occurring;
\* the other callers are finitely many).
C2_TakeReturns ==
    \A c \in Calls :
        (op[c] = "Take" /\ pc[c] = "wait" /\ waitingJobNow = c)
            ~> (pc[c] = "done" \/ stopped \/ dpc = "panicked")

\* C3: a TakeMaxDuration for which a tick handled before the deadline found
\* avail >= count, with its job the tracked candidate, does not return false.
C3_TakeMaxDurationSucceeds ==
    \A c \in Calls : (op[c] = "TakeMaxDuration" /\ enough[c]) => result[c] # "false"

\* C4: TryTake(count) with 0 <= count <= cap returns true and decreases avail by
\* count iff count <= avail at the call; otherwise it returns false and leaves
\* avail unchanged; either way it queues nothing and leaves the wait queue and
\* the tracked candidate alone.
C4_TryTakeExact ==
    [][\A c \in Calls :
          (pc[c] = "idle" /\ op'[c] = "TryTake" /\ need'[c] \in ValidCounts) =>
              /\ pc'[c] = "done"
              /\ waitingQuque' = waitingQuque
              /\ waitingJobNow' = waitingJobNow
              /\ arrivals' = arrivals
              /\ IF need'[c] <= avail
                   THEN result'[c] = "true" /\ avail' = avail - need'[c]
                   ELSE result'[c] = "false" /\ avail' = avail]_vars

\* A TryTake has failed for lack of tokens while a job sat in the queue.
C4_Witness ==
    \E c \in Calls :
        /\ op[c] = "TryTake" /\ pc[c] = "done" /\ result[c] = "false"
        /\ need[c] \in ValidCounts /\ avail < need[c] /\ taken[c] = 0
        /\ waitingQuque # <<>>

\* C5: the refill loop signals a job only when every job queued before it has
\* been satisfied or abandoned: the signalled job is the oldest pending one.
C5_Fifo ==
    [][\A c \in Calls :
          signals'[c] > signals[c] => (arrivals # <<>> /\ Head(arrivals) = c)]_vars

\* Two jobs are pending, the first one tracked by the loop, and the tokens
\* suffice for the second, smaller one but not for the first.
C5_Witness ==
    /\ Len(arrivals) >= 2
    /\ waitingJobNow = arrivals[1]
    /\ pc[arrivals[1]] = "wait" /\ pc[arrivals[2]] = "wait"
    /\ need[arrivals[2]] < need[arrivals[1]]
    /\ need[arrivals[2]] <= avail /\ avail < need[arrivals[1]]
    /\ dpc = "idle"

\* C6 as claimed: while a job with a valid count is waiting, no call arriving
\* later takes tokens on its fast path.
C6_NoBarging ==
    [][\A c \in Calls :
          (pc[c] = "idle" /\ taken'[c] > 0) =>
              ~ \E d \in Calls : pc[d] = "wait" /\ need[d] \in ValidCounts]_vars

\* C6 as amended: avail decreases only on the fast path of a call that found
\* need <= avail, or for the tracked candidate during its hand-off, under the
\* refill loop's lock and with avail >= its need.
C6_DecreaseByFastPathOrCandidate ==
    [][avail' < avail =>
          \/ \E c \in Calls :
               /\ pc[c] = "idle" /\ pc'[c] = "done" /\ result'[c] = "true"
               /\ need'[c] <= avail /\ avail' = avail - use'[c]
               /\ tokenMutex = "free"
          \/ \E c \in Calls :
               /\ pc[c] = "got" /\ waitingJobNow = c /\ tokenMutex = "daemon"
               /\ need[c] <= avail /\ avail' = avail - use[c]]_vars

\* A TryTake has taken tokens while the tracked candidate, with a valid
\* count, was still waiting for its tokens.
C6_Witness ==
    \E c, d \in Calls :
        /\ op[c] = "TryTake" /\ pc[c] = "done" /\ result[c] = "true" /\ taken[c] > 0
        /\ pc[d] = "wait" /\ waitingJobNow = d /\ need[d] \in ValidCounts
        /\ avail < need[d]

\* C7: a timed method that has returned false has subtracted nothing from
\* avail and was never signalled; an abandoned job's owner has finished, so
\* nothing is subtracted for it afterwards either.
C7_TimedOutTakesNothing ==
    \A c \in Calls :
        /\ (op[c] \in Timed /\ result[c] = "false") => (taken[c] = 0 /\ signals[c] = 0)
        /\ abandoned[c] => (pc[c] \in {"done", "returned"} /\ taken[c] = 0)

\* A TakeMaxDuration has timed out as the loop's tracked candidate.
C7_Witness ==
    \E c \in Calls :
        /\ op[c] = "TakeMaxDuration" /\ pc[c] = "done" /\ result[c] = "false"
        /\ abandoned[c] /\ waitingJobNow = c

\* C8: no step of a Wait or WaitMaxDuration changes avail, the call subtracts
\* nothing, and it returns success only in a state with avail >= count.
C8_WaitTakesNothing ==
    [][\A c \in Calls :
          (op[c] \in WaitOps \/ op'[c] \in WaitOps) =>
              /\ taken'[c] = 0
              /\ pc'[c] # pc[c] => avail' = avail
              /\ (result[c] # "true" /\ result'[c] = "true") => avail' >= need'[c]]_vars

\* A Wait that had to queue has been served by the refill loop.
C8_Witness ==
    \E c \in Calls :
        /\ op[c] = "Wait" /\ pc[c] = "done" /\ result[c] = "true" /\ signals[c] = 1
        /\ need[c] >= 1 /\ avail >= need[c]

\* C9: a job is signalled at most once and is never both signalled and
\* abandoned; a signalled job's owner returns success having subtracted use,
\* an abandoned job's owner returns false having subtracted nothing.
C9_OneHandoff ==
    \A c \in Calls :
        /\ signals[c] <= 1
        /\ ~(signals[c] >= 1 /\ abandoned[c])
        /\ (signals[c] = 1 /\ pc[c] = "done") => (result[c] = "true" /\ taken[c] = use[c])
        /\ (abandoned[c] /\ pc[c] = "done") => (result[c] = "false" /\ taken[c] = 0)

\* One job has been satisfied while another, abandoned one is still queued.
C9_Witness ==
    \E c, d \in Calls :
        /\ c # d
        /\ signals[c] = 1 /\ pc[c] = "done" /\ result[c] = "true"
        /\ abandoned[d] /\ Reachable(d)

\* C10: every job in the wait queue or tracked by the refill loop has
\* 0 <= use <= need <= cap.
C10_JobsWithinCap ==
    \A c \in Calls :
        (Reachable(c) \/ pc[c] = "wait") =>
            (0 <= use[c] /\ use[c] <= need[c] /\ need[c] <= Cap)

\* C11: a TryTake(count) with count < 0 or count > cap panics, and the call
\* leaves avail, the wait queue, the tracked candidate and the token lock as
\* they were.
C11_TryTakePanics ==
    [][\A c \in Calls :
          (/\ pc[c] = "idle" /\ op'[c] = "TryTake"
           /\ (need'[c] < 0 \/ need'[c] > cap)) =>
              /\ pc'[c] = "done" /\ result'[c] = "panic" /\ taken'[c] = 0
              /\ avail' = avail
              /\ waitingQuque' = waitingQuque
              /\ waitingJobNow' = waitingJobNow
              /\ arrivals' = arrivals
              /\ tokenMutex' = tokenMutex]_vars

\* A TryTake of a negative count has panicked with the bucket not full and
\* a waiting job tracked by the refill loop.
C11_Witness ==
    \E c \in Calls :
        /\ op[c] = "TryTake" /\ pc[c] = "done" /\ result[c] = "panic" /\ need[c] < 0
        /\ avail < cap /\ waitingJobNow # Nil /\ pc[waitingJobNow] = "wait"

\* C12 as claimed: once Destory has been called avail is never incremented
\* and no waiting job is signalled.
C12_NoRefillAfterDestory ==
    [][stopped => (avail' <= avail /\ \A c \in Calls : signals'[c] <= signals[c])]_vars

\* The refill loop waits for a tick, no tick is left in ticker.C and the
\* ticker is stopped.
Quiet == stopped /\ ~tickPending /\ dpc = "idle"

BlockingOps == {"Take", "Wait"}

\* C12 as amended: Destory stops the ticker for good; after it avail is
\* incremented only for a tick that was already sent, so at most once.  Once
\* the loop is idle with no tick left, avail is never incremented, no job is
\* signalled, a caller blocked in Take or Wait stays blocked, a timed caller
\* leaves its wait only with false, and does so once its max has elapsed.
C12_DestoryStopsTicks ==
    /\ [][/\ stopped => stopped'
          /\ stopped => ~(~tickPending /\ tickPending')
          /\ (stopped /\ avail' > avail) => (tickPending /\ ~tickPending')
          /\ Quiet =>
                /\ Quiet'
                /\ avail' <= avail
                /\ \A c \in Calls : signals'[c] <= signals[c]
                /\ \A c \in Calls :
                     (pc[c] = "wait" /\ op[c] \in BlockingOps) => pc'[c] = "wait"
                /\ \A c \in Calls :
                     (pc[c] = "wait" /\ op[c] \in Timed /\ pc'[c] # "wait") =>
                         result'[c] = "false"]_vars
    /\ \A c \in Calls :
         (Quiet /\ pc[c] = "wait" /\ timer[c] = "expired") ~> (result[c] = "false")

\* After Destory, the loop idle: a Take is blocked with the bucket not full,
\* and a timed call queued behind it has returned false.
C12_Witness ==
    \E c, d \in Calls :
        /\ Quiet /\ avail < cap
        /\ op[c] = "Take" /\ pc[c] = "wait"
        /\ op[d] \in Timed /\ pc[d] = "done" /\ result[d] = "false" /\ c < d

\* C13: New(interval, cap) with interval < 0 or cap < 0 panics and no bucket
\* exists afterwards (nothing ever happens); a bucket New creates, for any
\* cap >= 0, is full with an empty wait queue, Capability is cap, and an
\* Availible made before any other call returns cap.
C13_NewChecksAndFills ==
    /\ [][/\ bucket # "panic"
          /\ bucket = "none" =>
                IF interval < 0 \/ cap < 0
                  THEN bucket' = "panic"
                  ELSE bucket' = "created" =>
                         /\ cap' = cap /\ cap >= 0
                         /\ avail' = cap /\ Capability' = cap
                         /\ waitingQuque' = <<>> /\ waitingJobNow' = Nil
                         /\ tokenMutex' = "free" /\ ~tickPending']_vars
    /\ [](\A c \in Calls :
            (/\ bucket = "created" /\ op[c] = "Availible" /\ pc[c] = "done"
             /\ \A d \in Calls \ {c} : pc[d] = "idle") =>
                (value[c] = cap /\ value[c] = Capability /\ waitingQuque = <<>>))

\* The first call on a bucket created with the largest cap was Availible,
\* and it has returned cap.
C13_Witness ==
    \E c \in Calls :
        /\ bucket = "created" /\ cap = Cap /\ cap > 0
        /\ op[c] = "Availible" /\ pc[c] = "done" /\ value[c] = cap
        /\ \A d \in Calls \ {c} : pc[d] = "idle"

\* C14: on a tick that finds a tracked candidate whose owner still waits, not
\* abandoned, with avail after the refill >= its need, the refill loop goes on
\* to hand the tokens to that candidate, whether or not the queue is empty.
C14_CandidateServedOnTick ==
    [][(/\ tickPending /\ ~tickPending'
        /\ waitingJobNow # Nil
        /\ pc[waitingJobNow] = "wait"
        /\ ~abandoned[waitingJobNow]
        /\ Refill(avail) >= need[waitingJobNow]) =>
            (dpc' = "send" /\ waitingJobNow' = waitingJobNow)]_vars

\* C15: the refill loop is never at its send on the channel of a job whose
\* owner has timed out (abandoned the job, closed the channel), and it never
\* ends in that send with the token lock held.
C15_NoSendToTimedOut ==
    /\ dpc = "send" => (~abandoned[waitingJobNow] /\ ~closed[waitingJobNow])
    /\ dpc # "panicked"

\* C16: the handling of one tick sets avail to min(avail + 1, cap) first and
\* then subtracts the use of at most one waiting job: while the tick is
\* handled avail is min(before + 1, cap) or that less the tracked job's use,
\* only the tracked job is signalled, once, and when the handling ends avail
\* is min(before + 1, cap) less 0 or less the use of the job served.
C16_OneTokenOneJob ==
    /\ [](LET refilled == IF availBefore + 1 < cap THEN availBefore + 1 ELSE cap
          IN availBefore # NoTick =>
               /\ waitingJobNow # Nil
               /\ avail \in {refilled, refilled - use[waitingJobNow]}
               /\ dpc = "send" => avail = refilled)
    /\ [][/\ (tickPending /\ ~tickPending') =>
                (/\ availBefore = NoTick
                 /\ avail' = IF avail + 1 < cap THEN avail + 1 ELSE cap)
          /\ \A c \in Calls :
                signals'[c] > signals[c] =>
                    (/\ dpc = "send" /\ dpc' = "recv" /\ waitingJobNow = c
                     /\ signals'[c] = 1
                     /\ \A d \in Calls \ {c} : signals'[d] <= signals[d])
          /\ dpc = "recv" =>
                (dpc' \in {"recv", "idle"} /\ waitingJobNow' \in {waitingJobNow, Nil})
          /\ (dpc = "recv" /\ dpc' = "idle") =>
                (/\ avail' = (IF availBefore + 1 < cap THEN availBefore + 1 ELSE cap)
                                 - use[waitingJobNow]
                 /\ waitingJobNow' = Nil)]_vars

\* A tick that found the bucket short of full has refilled one token and
\* served a Take or TakeMaxDuration, which has subtracted its count.
C16_Witness ==
    \E c \in Calls :
        /\ dpc = "recv" /\ waitingJobNow = c /\ pc[c] = "ack"
        /\ use[c] > 0 /\ availBefore + 1 <= cap
        /\ avail = availBefore + 1 - use[c]

\* C17: from the refill loop's test avail >= need to the end of the hand-off
\* the loop holds the token lock; while it does, avail changes only by the
\* served owner's subtraction of its use, no call gets through tryTake or
\* Availible (a call can only panic on its count, before the lock), no other
\* tick is handled, and the lock is released only on the owner's
\* acknowledgement.
C17_HandoffUnderLock ==
    /\ [](dpc \in {"send", "recv"} => tokenMutex = "daemon")
    /\ [][tokenMutex = "daemon" =>
            /\ avail' # avail =>
                  \E c \in Calls :
                      /\ waitingJobNow = c /\ dpc = "recv"
                      /\ pc[c] = "got" /\ pc'[c] = "ack"
                      /\ avail' = avail - use[c]
            /\ \A c \in Calls :
                  (pc[c] = "idle" /\ pc'[c] # "idle") =>
                      (result'[c] = "panic" /\ value'[c] = value[c])
            /\ ~(tickPending /\ ~tickPending')
            /\ tokenMutex' # "daemon" =>
                  (/\ dpc = "recv" /\ dpc' = "idle"
                   /\ pc[waitingJobNow] = "ack" /\ pc'[waitingJobNow] = "done")]_vars

\* The tracked job has been signalled and its owner has not subtracted yet,
\* while a tick is pending and a further call is still to be made.
C17_Witness ==
    \E c, d \in Calls :
        /\ dpc = "recv" /\ waitingJobNow = c /\ pc[c] = "got" /\ use[c] > 0
        /\ pc[d] = "idle" /\ tickPending

\* C18: each mutex is held by one thread, within its critical sections only;
\* a caller at or past the Lock of the queue mutex in addWaitingJob does not
\* hold the token mutex; a thread at the Lock of the token mutex does not
\* hold the queue mutex; and whenever a thread is at a Lock, a step of the
\* locks or of the hand-off in progress can be taken: the threads are never
\* deadlocked over the two mutexes.
C18_NoLockOrderDeadlock ==
    /\ \A c \in Calls :
         /\ tokenMutex = Caller(c) <=> pc[c] = "locked"
         /\ waitingQuqueMutex = Caller(c) <=> pc[c] = "adding"
         /\ pc[c] \in {"add", "adding"} => tokenMutex # Caller(c)
         /\ pc[c] = "lock" => waitingQuqueMutex # Caller(c)
    /\ tokenMutex = "daemon" <=>
         dpc \in {"front", "fronting", "remove", "removing", "test", "send", "recv",
                  "panicked"}
    /\ waitingQuqueMutex = "daemon" <=> dpc \in {"fronting", "removing"}
    /\ dpc = "lock" => waitingQuqueMutex # "daemon"
    /\ (AtLock /\ dpc # "panicked") => ENABLED (LockStep \/ HandoffStep)

\* adjustDaemon, holding the token mutex, is at the Lock of the queue mutex,
\* which a caller queueing its job holds, while another caller is at the
\* Lock of the token mutex.
C18_Witness ==
    \E c, d \in Calls :
        /\ dpc \in {"front", "remove"} /\ tokenMutex = "daemon"
        /\ pc[c] = "adding" /\ waitingQuqueMutex = Caller(c)
        /\ pc[d] = "lock"

\* C19: when the tracked candidate is abandoned and a Take or Wait with a
\* count the bucket can hold is at the front of the queue behind it, that
\* request is eventually served, as long as the ticks go on (the other
\* callers are finitely many).
C19_NextBehindAbandonedServed ==
    \A a, r \in Calls :
        (/\ waitingJobNow = a /\ abandoned[a]
         /\ waitingQuque # <<>> /\ Head(waitingQuque) = r
         /\ pc[r] = "wait" /\ op[r] \in BlockingOps /\ need[r] \in 0..cap)
            ~> (signals[r] >= 1 \/ stopped \/ dpc = "panicked")

====
